---- MODULE Spec2Model ----
(***************************************************************************)
(* Model of PackMap3D.py: the command line front end (main) and the atlas  *)
(* writer (pack_atlas_3d) with its helpers iter_tiles, build_downsampled   *)
(* and encode_png_bytes.  The output file is modelled byte by byte.        *)
(*                                                                         *)
(* External collaborators (Pillow) are modelled by what the packer can     *)
(* observe of them:                                                        *)
(*   - an image is a record [width, height, colour] (a solid colour        *)
(*     raster; a crop or a BOX resize of a solid raster is solid again);   *)
(*   - Image.resize raises ValueError when a requested side is < 1;        *)
(*   - the PNG encoder returns a non-empty byte string that depends on the *)
(*     tile: a signature byte, the width and the height on two bytes each  *)
(*     and one byte per pixel row.                                         *)
(***************************************************************************)
EXTENDS Integers, Sequences, FiniteSets, TLC

VARIABLES pc, caller, exc, src, tile_px, lods, base_images, width, height,
          out_file, f, pos, header_end, tiles_full, lod_i, z,
          downsampled_layers, index_entries, tile_data_blobs,
          index_offset, data_offset

vars == <<pc, caller, exc, src, tile_px, lods, base_images, width, height,
          out_file, f, pos, header_end, tiles_full, lod_i, z,
          downsampled_layers, index_entries, tile_data_blobs,
          index_offset, data_offset>>

(***************************************************************************)
(* Bounds of the model.                                                    *)
(***************************************************************************)
MaxLodsChars == 3
MaxLods == 2
MaxTilesPerLayer == 9

(***************************************************************************)
(* Program constants.                                                      *)
(***************************************************************************)
TILE_PX_DEFAULT == 256
MAGIC == <<65, 84, 76, 83, 118, 49, 0, 0>>
VERSION == 2
NUM_LAYERS == 4
entry_size == 36
None == -1
DEFAULT_LODS == <<"1", ",", "2", ",", "4">>

(***************************************************************************)
(* Input domains.                                                          *)
(***************************************************************************)
Dims == {1, 2, 7, 300}
TileValues == {-1, 0, 1, 2, 3, TILE_PX_DEFAULT}
LodChars == {"0", "1", "2", "3", "4", ",", " "}
OldBytes == <<7, 7, 7>>
NoFile == <<-1>>

RECURSIVE SeqsUpTo(_, _)
SeqsUpTo(S, n) ==
    IF n = 0 THEN {<<>>}
    ELSE LET shorter == SeqsUpTo(S, n - 1)
         IN  shorter \cup {Append(s, c) : s \in shorter, c \in S}

Min(a, b) == IF a < b THEN a ELSE b

(***************************************************************************)
(* math.ceil(a / b) for a >= 0, b > 0.                                     *)
(***************************************************************************)
ceil(a, b) == (a + b - 1) \div b

(***************************************************************************)
(* struct.pack("<I", v), struct.pack("<Q", v): little-endian bytes.        *)
(* struct.pack raises struct.error for a negative value.                   *)
(***************************************************************************)
RECURSIVE LE(_, _)
LE(v, n) == IF n = 0 THEN <<>> ELSE <<v % 256>> \o LE(v \div 256, n - 1)

PackI(v) == LE(v, 4)
PackQ(v) == LE(v, 8)
PackRaises(v) == v < 0

RECURSIVE UnLE(_)
UnLE(b) == IF b = <<>> THEN 0 ELSE Head(b) + 256 * UnLE(Tail(b))

(***************************************************************************)
(* f.write(data) at position p of a file holding bytes: overwrites what is *)
(* there and extends the file past its end.                                *)
(***************************************************************************)
FileWrite(bytes, p, data) ==
    LET end == p + Len(data)
        n   == IF end > Len(bytes) THEN end ELSE Len(bytes)
    IN  [k \in 1..n |-> IF k > p /\ k <= end THEN data[k - p] ELSE bytes[k]]

(***************************************************************************)
(* main: parsing of --lods.                                                *)
(***************************************************************************)
RECURSIVE split(_, _)
split(s, cur) ==
    IF s = <<>> THEN <<cur>>
    ELSE IF Head(s) = "," THEN <<cur>> \o split(Tail(s), <<>>)
    ELSE split(Tail(s), Append(cur, Head(s)))

RECURSIVE lstrip(_)
lstrip(s) == IF s # <<>> /\ Head(s) = " " THEN lstrip(Tail(s)) ELSE s

RECURSIVE rstrip(_)
rstrip(s) ==
    IF s # <<>> /\ s[Len(s)] = " " THEN rstrip(SubSeq(s, 1, Len(s) - 1)) ELSE s

strip(s) == rstrip(lstrip(s))

DigitVal(c) ==
    CASE c = "0" -> 0 [] c = "1" -> 1 [] c = "2" -> 2
      [] c = "3" -> 3 [] c = "4" -> 4 [] OTHER -> None

RECURSIVE int_acc(_, _)
int_acc(s, acc) ==
    IF s = <<>> THEN acc
    ELSE IF DigitVal(Head(s)) = None THEN None
    ELSE int_acc(Tail(s), 10 * acc + DigitVal(Head(s)))

\* int(x) of a non-empty stripped token; None stands for ValueError
int(s) == int_acc(s, 0)

\* the list comprehension of main: tokens that are non-empty once stripped
parse_lods(s) ==
    LET toks == SelectSeq(split(s, <<>>), LAMBDA t : strip(t) # <<>>)
    IN  [k \in 1..Len(toks) |-> int(strip(toks[k]))]

lods_invalid(l) ==
    \/ \E k \in 1..Len(l) : l[k] \notin {1, 2, 4}
    \/ l = <<>>

(***************************************************************************)
(* Images.                                                                 *)
(***************************************************************************)
Img(w, h, c) == [width |-> w, height |-> h, colour |-> c]

\* Image.crop((x0, y0, x1, y1))
crop(img, box) ==
    Img(box[3] - box[1], box[4] - box[2], img.colour)

\* Image.resize raises ValueError("height and width must be > 0")
resize_raises(img, subsample) ==
    img.width \div subsample < 1 \/ img.height \div subsample < 1

build_downsampled(img, subsample) ==
    IF subsample = 1 THEN img
    ELSE Img(img.width \div subsample, img.height \div subsample, img.colour)

\* lines 44-48: the box of tile (tx, ty)
tile_box_padded(img, t, tx, ty) ==
    <<tx * t, ty * t, tx * t + t, ty * t + t>>

tile_box(img, t, tx, ty) ==
    LET y0 == ty * t
        y1 == Min(y0 + t, img.height)
        x0 == tx * t
        x1 == Min(x0 + t, img.width)
    IN  <<x0, y0, x1, y1>>

\* the inner loop of iter_tiles: the tiles of row ty, from column tx on
RECURSIVE iter_row(_, _, _, _, _)
iter_row(img, t, ty, tx, tiles_x) ==
    IF tx >= tiles_x THEN <<>>
    ELSE <<[tx |-> tx, ty |-> ty, box |-> tile_box(img, t, tx, ty)]>>
             \o iter_row(img, t, ty, tx + 1, tiles_x)

\* the outer loop of iter_tiles: the rows from ty on
RECURSIVE iter_rows(_, _, _, _, _)
iter_rows(img, t, ty, tiles_x, tiles_y) ==
    IF ty >= tiles_y THEN <<>>
    ELSE iter_row(img, t, ty, 0, tiles_x)
             \o iter_rows(img, t, ty + 1, tiles_x, tiles_y)

iter_tiles_column_major(img, t) ==
    LET tiles_x == ceil(img.width, t)
        tiles_y == ceil(img.height, t)
    IN  [k \in 1..(tiles_x * tiles_y) |->
            LET tx == (k - 1) \div tiles_y
                ty == (k - 1) % tiles_y
            IN  [tx |-> tx, ty |-> ty, box |-> tile_box(img, t, tx, ty)]]

iter_tiles(img, t) ==
    LET tiles_x == ceil(img.width, t)
        tiles_y == ceil(img.height, t)
    IN  iter_rows(img, t, 0, tiles_x, tiles_y)

\* the byte string of the encoder for a tile
png_data(tile_img) ==
    <<137>> \o LE(tile_img.width, 2) \o LE(tile_img.height, 2)
            \o [r \in 1..tile_img.height |-> tile_img.colour]

encode_png_bytes(tile_img) ==
    [data |-> png_data(tile_img), w |-> tile_img.width, h |-> tile_img.height]

(***************************************************************************)
(* pack_atlas_3d: the pieces of the function.                              *)
(***************************************************************************)
\* line 128: one index entry, its offset unresolved
new_entry(subsample, zz, t, enc) ==
    [lod |-> subsample, z |-> zz, tx |-> t.tx, ty |-> t.ty,
     w |-> enc.w, h |-> enc.h, rel_off |-> None, length |-> Len(enc.data)]

\* lines 125-129 for one layer: the entries and the blobs it appends
layer_entries(base, subsample, zz, t) ==
    LET tiles == iter_tiles(base, t)
    IN  [k \in 1..Len(tiles) |->
            new_entry(subsample, zz, tiles[k],
                      encode_png_bytes(crop(base, tiles[k].box)))]

layer_blobs(base, t) ==
    LET tiles == iter_tiles(base, t)
    IN  [k \in 1..Len(tiles) |->
            encode_png_bytes(crop(base, tiles[k].box)).data]

\* lines 93-96
header_head(w, h) == MAGIC \o PackI(VERSION) \o PackI(w) \o PackI(h)

\* lines 98-100
RECURSIVE pack_lods(_)
pack_lods(l) == IF l = <<>> THEN <<>> ELSE PackI(Head(l)) \o pack_lods(Tail(l))

header_lods(l) == PackI(Len(l)) \o pack_lods(l)

\* lines 103-107
header_tail(tx_full, ty_full) ==
    PackI(tx_full) \o PackI(ty_full) \o PackI(NUM_LAYERS) \o PackQ(0) \o PackQ(0)

\* lines 146-149: the running cursor
RECURSIVE resolve_from(_, _, _, _)
resolve_from(entries, blobs, i, cursor) ==
    IF i > Len(entries) THEN <<>>
    ELSE <<[entries[i] EXCEPT !.rel_off = cursor]>>
             \o resolve_from(entries, blobs, i + 1, cursor + Len(blobs[i]))

RECURSIVE resolve_fixed(_, _, _, _)
resolve_fixed(entries, blobs, i, cursor) ==
    IF i > Len(entries) THEN <<>>
    ELSE <<[entries[i] EXCEPT !.rel_off = cursor]>>
             \o resolve_fixed(entries, blobs, i + 1, cursor + Len(blobs[1]))

resolve_offsets_first_len(entries, blobs) == resolve_fixed(entries, blobs, 1, 0)

resolve_offsets(entries, blobs) == resolve_from(entries, blobs, 1, 0)

\* lines 152-159: one index record
pack_entry(e) ==
    PackI(e.lod) \o PackI(e.z) \o PackI(e.tx) \o PackI(e.ty) \o PackI(e.w)
        \o PackI(e.h) \o PackQ(e.rel_off) \o PackI(e.length)

RECURSIVE pack_index(_)
pack_index(entries) ==
    IF entries = <<>> THEN <<>>
    ELSE pack_entry(Head(entries)) \o pack_index(Tail(entries))

\* lines 163-164
RECURSIVE concat_blobs(_)
concat_blobs(blobs) ==
    IF blobs = <<>> THEN <<>> ELSE Head(blobs) \o concat_blobs(Tail(blobs))

RECURSIVE concat_reversed(_)
concat_reversed(blobs) ==
    IF blobs = <<>> THEN <<>> ELSE concat_reversed(Tail(blobs)) \o Head(blobs)

data_section_reversed(blobs) == concat_reversed(blobs)

data_section(blobs) == concat_blobs(blobs)

\* lines 179-181
patch_bytes_swapped(ioff, doff) == PackQ(doff) \o PackQ(ioff)

patch_bytes(ioff, doff) == PackQ(ioff) \o PackQ(doff)

patch_pos_late(hend) == hend - 8

patch_pos(hend) == hend - 16

(***************************************************************************)
(* Inputs.                                                                 *)
(***************************************************************************)
\* n source PNGs of w x h; when m > 0 the layer of index m has another size
Layers(n, w, h, m, wider) ==
    [k \in 1..n |->
        IF m > 0 /\ k = m + 1
        THEN IF wider THEN Img(w + 1, h, 10 + k) ELSE Img(w, h + 1, 10 + k)
        ELSE Img(w, h, 10 + k)]

LodStrings == SeqsUpTo(LodChars, MaxLodsChars) \cup {DEFAULT_LODS}
LodLists == SeqsUpTo({1, 2, 4}, MaxLods) \cup {<<1, 2, 4>>}

Feasible(w, h, t) == t > 0 => ceil(w, t) * ceil(h, t) <= MaxTilesPerLayer

(***************************************************************************)
(* State machine.                                                          *)
(***************************************************************************)
Init ==
    /\ pc = "start"
    /\ caller = "none"
    /\ exc = "none"
    /\ src = <<>>
    /\ tile_px = None
    /\ lods = <<>>
    /\ base_images = <<>>
    /\ width = None
    /\ height = None
    /\ out_file \in {NoFile, OldBytes}
    /\ f = "none"
    /\ pos = 0
    /\ header_end = None
    /\ tiles_full = <<None, None>>
    /\ lod_i = 0
    /\ z = 0
    /\ downsampled_layers = <<>>
    /\ index_entries = <<>>
    /\ tile_data_blobs = <<>>
    /\ index_offset = None
    /\ data_offset = None

\* an exception leaves pack_atlas_3d; the with block closes an open file
Raise(e) ==
    /\ pc' = "raised"
    /\ exc' = e
    /\ f' = IF f = "open" THEN "closed" ELSE f

\* main, lines 198-224
Main ==
    /\ pc = "start"
    /\ \E s \in LodStrings, t \in TileValues, present \in BOOLEAN,
          w \in Dims, h \in Dims, m \in 0..(NUM_LAYERS - 1), wider \in BOOLEAN :
        /\ Feasible(w, h, t)
        /\ caller' = "main"
        /\ IF lods_invalid(parse_lods(s))
           THEN /\ pc' = "exit"
                /\ exc' = "exit2"
                /\ UNCHANGED <<src, tile_px, lods>>
           ELSE IF ~present
           THEN /\ pc' = "exit"
                /\ exc' = "exit1"
                /\ UNCHANGED <<src, tile_px, lods>>
           ELSE /\ pc' = "pack"
                /\ exc' = "none"
                /\ src' = Layers(NUM_LAYERS, w, h, m, wider)
                /\ tile_px' = t
                /\ lods' = parse_lods(s)
    /\ UNCHANGED <<base_images, width, height, out_file, f, pos, header_end,
                   tiles_full, lod_i, z, downsampled_layers, index_entries,
                   tile_data_blobs, index_offset, data_offset>>

\* a direct call of pack_atlas_3d
Call ==
    /\ pc = "start"
    /\ \E n \in {NUM_LAYERS - 1, NUM_LAYERS, NUM_LAYERS + 1},
          l \in LodLists, t \in TileValues, w \in Dims, h \in Dims,
          m \in 0..(NUM_LAYERS - 1), wider \in BOOLEAN :
        /\ Feasible(w, h, t)
        /\ m < n
        /\ src' = Layers(n, w, h, m, wider)
        /\ tile_px' = t
        /\ lods' = l
    /\ caller' = "api"
    /\ pc' = "pack"
    /\ UNCHANGED <<exc, base_images, width, height, out_file, f, pos,
                   header_end, tiles_full, lod_i, z, downsampled_layers,
                   index_entries, tile_data_blobs, index_offset, data_offset>>

\* lines 68-73
count_ok(paths) == Len(paths) = NUM_LAYERS

CheckCount ==
    /\ pc = "pack"
    /\ IF count_ok(src)
       THEN pc' = "load" /\ UNCHANGED <<exc, f>>
       ELSE Raise("ValueError_count")
    /\ UNCHANGED <<caller, src, tile_px, lods, base_images, width, height,
                   out_file, pos, header_end, tiles_full, lod_i, z,
                   downsampled_layers, index_entries, tile_data_blobs,
                   index_offset, data_offset>>

\* line 84: the size test of a layer after the first
size_ok_width_only(img, w, h) == ~(img.width # w)

size_ok(img, w, h) == ~(img.width # w \/ img.height # h)

\* lines 75-90, one iteration
LoadLayer ==
    /\ pc = "load"
    /\ Len(base_images) < Len(src)
    /\ LET img == src[Len(base_images) + 1]
       IN  IF width = None
           THEN /\ width' = img.width
                /\ height' = img.height
                /\ base_images' = Append(base_images, img)
                /\ UNCHANGED <<pc, exc, f>>
           ELSE IF size_ok(img, width, height)
           THEN /\ base_images' = Append(base_images, img)
                /\ UNCHANGED <<pc, exc, f, width, height>>
           ELSE /\ Raise("ValueError_size")
                /\ UNCHANGED <<base_images, width, height>>
    /\ UNCHANGED <<caller, src, tile_px, lods, out_file, pos, header_end,
                   tiles_full, lod_i, z, downsampled_layers, index_entries,
                   tile_data_blobs, index_offset, data_offset>>

\* line 92: open(out_atlas_path, "wb") creates or truncates the file
OpenFile ==
    /\ pc = "load"
    /\ Len(base_images) = Len(src)
    /\ out_file' = <<>>
    /\ f' = "open"
    /\ pos' = 0
    /\ pc' = "header"
    /\ UNCHANGED <<caller, exc, src, tile_px, lods, base_images, width, height,
                   header_end, tiles_full, lod_i, z, downsampled_layers,
                   index_entries, tile_data_blobs, index_offset, data_offset>>

\* f.write(data) at the current position
Write(data) ==
    /\ out_file' = FileWrite(out_file, pos, data)
    /\ pos' = pos + Len(data)

\* lines 93-96
WriteHeaderHead ==
    /\ pc = "header"
    /\ Write(header_head(width, height))
    /\ pc' = "header_tile"
    /\ UNCHANGED <<caller, exc, src, tile_px, lods, base_images, width, height,
                   f, header_end, tiles_full, lod_i, z, downsampled_layers,
                   index_entries, tile_data_blobs, index_offset, data_offset>>

\* line 97
WriteTilePx ==
    /\ pc = "header_tile"
    /\ IF PackRaises(tile_px)
       THEN Raise("struct_error") /\ UNCHANGED <<out_file, pos>>
       ELSE Write(PackI(tile_px)) /\ pc' = "header_lods" /\ UNCHANGED <<exc, f>>
    /\ UNCHANGED <<caller, src, tile_px, lods, base_images, width, height,
                   header_end, tiles_full, lod_i, z, downsampled_layers,
                   index_entries, tile_data_blobs, index_offset, data_offset>>

\* lines 98-100
WriteLods ==
    /\ pc = "header_lods"
    /\ Write(header_lods(lods))
    /\ pc' = "tiles_full"
    /\ UNCHANGED <<caller, exc, src, tile_px, lods, base_images, width, height,
                   f, header_end, tiles_full, lod_i, z, downsampled_layers,
                   index_entries, tile_data_blobs, index_offset, data_offset>>

\* lines 101-102: ceil(width / tile_px) raises ZeroDivisionError for 0
tiles_full_floor(w, h, t) == <<w \div t, h \div t>>

tiles_full_of(w, h, t) == <<ceil(w, t), ceil(h, t)>>

ComputeTilesFull ==
    /\ pc = "tiles_full"
    /\ IF tile_px = 0
       THEN Raise("ZeroDivisionError") /\ UNCHANGED tiles_full
       ELSE /\ tiles_full' = tiles_full_of(width, height, tile_px)
            /\ pc' = "header_tail"
            /\ UNCHANGED <<exc, f>>
    /\ UNCHANGED <<caller, src, tile_px, lods, base_images, width, height,
                   out_file, pos, header_end, lod_i, z, downsampled_layers,
                   index_entries, tile_data_blobs, index_offset, data_offset>>

\* lines 103-112
WriteHeaderTail ==
    /\ pc = "header_tail"
    /\ Write(header_tail(tiles_full[1], tiles_full[2]))
    /\ header_end' = pos'
    /\ index_entries' = <<>>
    /\ tile_data_blobs' = <<>>
    /\ lod_i' = 1
    /\ pc' = "lod"
    /\ UNCHANGED <<caller, exc, src, tile_px, lods, base_images, width, height,
                   f, tiles_full, z, downsampled_layers, index_offset,
                   data_offset>>

\* lines 114-122: the rasters of the next LOD of the list
Downsample ==
    /\ pc = "lod"
    /\ lod_i <= Len(lods)
    /\ LET subsample == lods[lod_i]
       IN  IF subsample # 1 /\ \E k \in 1..NUM_LAYERS :
                                   resize_raises(base_images[k], subsample)
           THEN Raise("ValueError_resize") /\ UNCHANGED <<downsampled_layers, z>>
           ELSE /\ downsampled_layers' =
                       [k \in 1..NUM_LAYERS |->
                           IF subsample = 1 THEN base_images[k]
                           ELSE build_downsampled(base_images[k], subsample)]
                /\ z' = 0
                /\ pc' = "tiles"
                /\ UNCHANGED <<exc, f>>
    /\ UNCHANGED <<caller, src, tile_px, lods, base_images, width, height,
                   out_file, pos, header_end, tiles_full, lod_i, index_entries,
                   tile_data_blobs, index_offset, data_offset>>

\* lines 124-135: the tiles of layer z of the current LOD
TileLayer ==
    /\ pc = "tiles"
    /\ LET base == downsampled_layers[z + 1]
       IN  /\ index_entries' = index_entries
                   \o layer_entries(base, lods[lod_i], z, tile_px)
           /\ tile_data_blobs' = tile_data_blobs \o layer_blobs(base, tile_px)
    /\ IF z + 1 < NUM_LAYERS
       THEN z' = z + 1 /\ UNCHANGED <<pc, lod_i>>
       ELSE z' = 0 /\ lod_i' = lod_i + 1 /\ pc' = "lod"
    /\ UNCHANGED <<caller, exc, src, tile_px, lods, base_images, width, height,
                   out_file, f, pos, header_end, tiles_full, downsampled_layers,
                   index_offset, data_offset>>

\* lines 137-144
index_size(entries) == Len(entries) * entry_size

ComputeOffsets ==
    /\ pc = "lod"
    /\ lod_i > Len(lods)
    /\ index_offset' = pos
    /\ data_offset' = pos + index_size(index_entries)
    /\ pc' = "resolve"
    /\ UNCHANGED <<caller, exc, src, tile_px, lods, base_images, width, height,
                   out_file, f, pos, header_end, tiles_full, lod_i, z,
                   downsampled_layers, index_entries, tile_data_blobs>>

\* lines 146-149
ResolveOffsets ==
    /\ pc = "resolve"
    /\ index_entries' = resolve_offsets(index_entries, tile_data_blobs)
    /\ pc' = "index"
    /\ UNCHANGED <<caller, exc, src, tile_px, lods, base_images, width, height,
                   out_file, f, pos, header_end, tiles_full, lod_i, z,
                   downsampled_layers, tile_data_blobs, index_offset,
                   data_offset>>

\* lines 151-161: the index table, then the assertion on the position
WriteIndex ==
    /\ pc = "index"
    /\ Write(pack_index(index_entries))
    /\ IF pos' = data_offset
       THEN pc' = "data" /\ UNCHANGED <<exc, f>>
       ELSE Raise("AssertionError")
    /\ UNCHANGED <<caller, src, tile_px, lods, base_images, width, height,
                   header_end, tiles_full, lod_i, z, downsampled_layers,
                   index_entries, tile_data_blobs, index_offset, data_offset>>

\* lines 163-164
WriteData ==
    /\ pc = "data"
    /\ Write(data_section(tile_data_blobs))
    /\ pc' = "patch"
    /\ UNCHANGED <<caller, exc, src, tile_px, lods, base_images, width, height,
                   f, header_end, tiles_full, lod_i, z, downsampled_layers,
                   index_entries, tile_data_blobs, index_offset, data_offset>>

\* lines 179-181, and the end of the with block
PatchHeader ==
    /\ pc = "patch"
    /\ LET data == patch_bytes(index_offset, data_offset)
       IN  /\ out_file' = FileWrite(out_file, patch_pos(header_end), data)
           /\ pos' = patch_pos(header_end) + Len(data)
    /\ f' = "closed"
    /\ pc' = "written"
    /\ UNCHANGED <<caller, exc, src, tile_px, lods, base_images, width, height,
                   header_end, tiles_full, lod_i, z, downsampled_layers,
                   index_entries, tile_data_blobs, index_offset, data_offset>>

\* lines 183-196
Finish ==
    /\ pc = "written"
    /\ base_images' = <<>>
    /\ pc' = "done"
    /\ UNCHANGED <<caller, exc, src, tile_px, lods, width, height, out_file,
                   f, pos, header_end, tiles_full, lod_i, z,
                   downsampled_layers, index_entries, tile_data_blobs,
                   index_offset, data_offset>>

\* a write or seek on the open file raises OSError: the call is abandoned
WriteFails ==
    /\ f = "open"
    /\ pc \in {"header", "header_tile", "header_lods", "header_tail", "index",
               "data", "patch"}
    /\ Raise("OSError")
    /\ UNCHANGED <<caller, src, tile_px, lods, base_images, width, height,
                   out_file, pos, header_end, tiles_full, lod_i, z,
                   downsampled_layers, index_entries, tile_data_blobs,
                   index_offset, data_offset>>

Next ==
    \/ Main
    \/ Call
    \/ CheckCount
    \/ LoadLayer
    \/ OpenFile
    \/ WriteHeaderHead
    \/ WriteTilePx
    \/ WriteLods
    \/ ComputeTilesFull
    \/ WriteHeaderTail
    \/ Downsample
    \/ TileLayer
    \/ ComputeOffsets
    \/ ResolveOffsets
    \/ WriteIndex
    \/ WriteData
    \/ PatchHeader
    \/ Finish
    \/ WriteFails

Spec == Init /\ [][Next]_vars

TypeOK ==
    /\ pc \in {"start", "exit", "raised", "pack", "load", "header",
               "header_tile", "header_lods", "tiles_full", "header_tail",
               "lod", "tiles", "resolve", "index", "data", "patch",
               "written", "done"}
    /\ f \in {"none", "open", "closed"}
    /\ exc # "AssertionError"

(***************************************************************************)
(* Reading the container back from the bytes of the output file.           *)
(***************************************************************************)
U16(bytes, off) == UnLE(SubSeq(bytes, off + 1, off + 2))
U32(bytes, off) == UnLE(SubSeq(bytes, off + 1, off + 4))
U64(bytes, off) == UnLE(SubSeq(bytes, off + 1, off + 8))

HdrLen == 56 + 4 * Len(lods)
FileIndexOffset == U64(out_file, HdrLen - 16)
FileDataOffset == U64(out_file, HdrLen - 8)
FileTilesX == U32(out_file, 28 + 4 * Len(lods))
FileTilesY == U32(out_file, 32 + 4 * Len(lods))
FileCount == (FileDataOffset - FileIndexOffset) \div 36

FileRec(i) ==
    LET b == FileIndexOffset + 36 * (i - 1)
    IN  [lod |-> U32(out_file, b), z |-> U32(out_file, b + 4),
         tx |-> U32(out_file, b + 8), ty |-> U32(out_file, b + 12),
         w |-> U32(out_file, b + 16), h |-> U32(out_file, b + 20),
         rel_off |-> U64(out_file, b + 24), length |-> U32(out_file, b + 32)]

FileRecs == [i \in 1..FileCount |-> FileRec(i)]

Completed == pc \in {"written", "done"}
Resolved == pc \in {"index", "data", "patch", "written", "done"}

CeilDiv(a, b) == IF a % b = 0 THEN a \div b ELSE a \div b + 1
LodSide(dim, s) == dim \div s

\* the offsets of a list of entries form a chain starting at 0
Chained(es) ==
    /\ es # <<>> => es[1].rel_off = 0
    /\ \A i \in 1..(Len(es) - 1) :
          /\ es[i + 1].rel_off = es[i].rel_off + es[i].length
          /\ es[i + 1].rel_off > es[i].rel_off

\* C1: once the offsets are resolved, the rel_offset of the first entry is 0
\* and that of every later entry is the previous rel_offset plus the previous
\* byte_length, strictly increasing; in the written file the last entry's
\* rel_offset + byte_length is file_size - data_offset.
C1_OffsetsContiguous ==
    /\ Resolved => Chained(index_entries)
    /\ Completed =>
          /\ FileRecs = index_entries
          /\ Chained(FileRecs)
          /\ FileCount > 0 =>
                FileRecs[FileCount].rel_off + FileRecs[FileCount].length
                    = Len(out_file) - FileDataOffset

C1_Witness ==
    /\ pc = "done"
    /\ FileCount >= 3
    /\ \E i, j \in 1..FileCount : FileRec(i).length # FileRec(j).length

ValidInputs ==
    /\ Len(src) = NUM_LAYERS
    /\ \A k \in 1..Len(src) :
          src[k].width = src[1].width /\ src[k].height = src[1].height
    /\ tile_px > 0
    /\ lods # <<>>
    /\ \A k \in 1..Len(lods) : lods[k] \in {1, 2, 4}

\* C2: a call with valid inputs that completes leaves a header with
\* index_offset < data_offset <= file_size and data_offset - index_offset
\* equal to 36 times the number of index entries.
C2_HeaderOffsets ==
    (Completed /\ ValidInputs) =>
        /\ FileIndexOffset < FileDataOffset
        /\ FileDataOffset <= Len(out_file)
        /\ (FileDataOffset - FileIndexOffset) % 36 = 0
        /\ FileDataOffset - FileIndexOffset = 36 * Len(index_entries)

C2_Witness ==
    /\ pc = "done"
    /\ ValidInputs
    /\ Len(lods) >= 2
    /\ Len(index_entries) > NUM_LAYERS

Key(e) == <<e.lod, e.z, e.tx, e.ty>>

\* the keys of the tiles of the LOD at position k of the list, in the order
\* layer, then row, then column
LodKeys(k) ==
    LET s  == lods[k]
        nx == CeilDiv(LodSide(width, s), tile_px)
        ny == CeilDiv(LodSide(height, s), tile_px)
    IN  [j \in 1..(NUM_LAYERS * nx * ny) |->
            LET zz == (j - 1) \div (nx * ny)
                r  == (j - 1) % (nx * ny)
            IN  <<s, zz, r % nx, r \div nx>>]

RECURSIVE ExpectedKeys(_)
ExpectedKeys(k) ==
    IF k > Len(lods) THEN <<>> ELSE LodKeys(k) \o ExpectedKeys(k + 1)

RECURSIVE SumLengths(_, _)
SumLengths(es, n) == IF n = 0 THEN 0 ELSE es[n].length + SumLengths(es, n - 1)

\* the i-th payload of the data section, found by walking the lengths
NthPayload(i) ==
    LET start == FileDataOffset + SumLengths(FileRecs, i - 1)
    IN  SubSeq(out_file, start + 1, start + FileRec(i).length)

\* C3: index table and data section list the tiles in production order: LODs
\* in the order supplied, layers 0..3 ascending, tiles row-major; the i-th
\* index record and the i-th payload describe the same tile.
C3_ProductionOrder ==
    /\ Resolved => [i \in 1..Len(index_entries) |-> Key(index_entries[i])]
                       = ExpectedKeys(1)
    /\ Completed =>
          /\ [i \in 1..FileCount |-> Key(FileRec(i))] = ExpectedKeys(1)
          /\ \A i \in 1..FileCount :
                LET r  == FileRec(i)
                    pl == NthPayload(i)
                IN  /\ pl = tile_data_blobs[i]
                    /\ U16(pl, 1) = r.w
                    /\ U16(pl, 3) = r.h
                    /\ pl[Len(pl)] = src[r.z + 1].colour

C3_Witness ==
    /\ pc = "done"
    /\ lods = <<2, 1>>
    /\ \E i \in 1..FileCount : FileRec(i).tx = 1 /\ FileRec(i).ty = 1
    /\ \E i \in 1..FileCount : FileRec(i).tx = 2 /\ FileRec(i).ty = 0

\* the box an index entry stands for
EntryBox(e) ==
    <<e.tx * tile_px, e.ty * tile_px, e.tx * tile_px + e.w, e.ty * tile_px + e.h>>

BoxArea(b) == (b[3] - b[1]) * (b[4] - b[2])
BoxesDisjoint(a, b) ==
    a[3] <= b[1] \/ b[3] <= a[1] \/ a[4] <= b[2] \/ b[4] <= a[2]

RECURSIVE SumArea(_)
SumArea(B) ==
    IF B = {} THEN 0
    ELSE LET b == CHOOSE x \in B : TRUE IN BoxArea(b) + SumArea(B \ {b})

\* the expected side of tile number n along an axis of length side
ExpectedSide(side, n) ==
    IF n = CeilDiv(side, tile_px) - 1 /\ side % tile_px # 0
    THEN side % tile_px
    ELSE tile_px

EntryGeometryOK(e) ==
    LET lw == LodSide(width, e.lod)
        lh == LodSide(height, e.lod)
        x0 == e.tx * tile_px
        y0 == e.ty * tile_px
    IN  /\ e.tx \in 0..(CeilDiv(lw, tile_px) - 1)
        /\ e.ty \in 0..(CeilDiv(lh, tile_px) - 1)
        /\ e.w = Min(x0 + tile_px, lw) - x0
        /\ e.h = Min(y0 + tile_px, lh) - y0
        /\ e.w = ExpectedSide(lw, e.tx)
        /\ e.h = ExpectedSide(lh, e.ty)
        /\ x0 + e.w <= lw
        /\ y0 + e.h <= lh

LodLayerBoxes(s, zz) ==
    {EntryBox(index_entries[i]) :
        i \in {j \in 1..Len(index_entries) :
                  index_entries[j].lod = s /\ index_entries[j].z = zz}}

\* C4: every index entry of LOD s covers the box x0 = tile_x * tile_px,
\* x1 = min(x0 + tile_px, floor(W / s)) (same in y), its sides are tile_px
\* except the remainder in the last column or row; boundary tiles are
\* truncated, and the boxes of one (LOD, layer) are pairwise disjoint and
\* cover the LOD raster exactly.
C4_TileGeometry ==
    /\ \A i \in 1..Len(index_entries) : EntryGeometryOK(index_entries[i])
    /\ Resolved =>
          \A k \in 1..Len(lods), zz \in 0..(NUM_LAYERS - 1) :
              LET B == LodLayerBoxes(lods[k], zz)
              IN  /\ \A a, b \in B : a # b => BoxesDisjoint(a, b)
                  /\ SumArea(B) = LodSide(width, lods[k]) * LodSide(height, lods[k])

C4_Witness ==
    /\ pc = "done"
    /\ \E i \in 1..Len(index_entries) :
          /\ index_entries[i].lod = 2
          /\ index_entries[i].w < tile_px
          /\ index_entries[i].tx > 0
    /\ \E i \in 1..Len(index_entries) :
          index_entries[i].w = tile_px /\ index_entries[i].h < tile_px

\* C5: for every index entry i of a completed pack the file bytes in
\* [data_offset + rel_offset, data_offset + rel_offset + byte_length) are the
\* payload the encoder returned for tile i, and pixel_w / pixel_h are the
\* width and height of the cropped rectangle.
C5_RoundTrip ==
    Completed =>
        \A i \in 1..FileCount :
            LET r     == FileRec(i)
                start == FileDataOffset + r.rel_off
                bytes == SubSeq(out_file, start + 1, start + r.length)
                lw    == LodSide(width, r.lod)
                lh    == LodSide(height, r.lod)
                x0    == r.tx * tile_px
                y0    == r.ty * tile_px
            IN  /\ Key(r) = Key(index_entries[i])
                /\ bytes = tile_data_blobs[i]
                /\ Len(bytes) = r.length
                /\ r.w = Min(x0 + tile_px, lw) - x0
                /\ r.h = Min(y0 + tile_px, lh) - y0
                /\ bytes[1] = 137
                /\ U16(bytes, 1) = r.w
                /\ U16(bytes, 3) = r.h
                /\ bytes[Len(bytes)] = src[r.z + 1].colour

C5_Witness ==
    /\ pc = "done"
    /\ FileCount > NUM_LAYERS
    /\ \E i \in 1..FileCount :
          /\ FileRec(i).rel_off > 0
          /\ FileRec(i).w # FileRec(i).h
          /\ FileRec(i).length # FileRec(1).length

BadLayers ==
    /\ src # <<>>
    /\ \/ Len(src) # NUM_LAYERS
       \/ \E k \in 1..Len(src) :
             src[k].width # src[1].width \/ src[k].height # src[1].height

\* C6: a call with a number of layers other than 4, or with a layer whose
\* size differs from the first layer's, ends in an error and the output file
\* is never opened, created or written.
C6_FailFast ==
    /\ [](BadLayers =>
            /\ f = "none"
            /\ pc \in {"pack", "load", "raised"}
            /\ pc = "raised" => exc \in {"ValueError_count", "ValueError_size"}
            /\ ~(ENABLED Next) => pc = "raised")
    /\ [][f' = "none" => out_file' = out_file]_vars

C6_Witness ==
    /\ pc = "raised"
    /\ exc = "ValueError_size"
    /\ Len(base_images) = 2
    /\ out_file = OldBytes

\* C7: a tile size <= 0 is rejected before any byte is written; on every
\* path from main the tile grid computation and iter_tiles are reached only
\* with tile_px > 0.
C7_TilePxRejected ==
    (caller = "main" /\ pc \notin {"start", "exit"}) =>
        /\ pc \in {"tiles_full", "header_tail", "tiles"} => tile_px > 0
        /\ tile_px <= 0 => f = "none"

RECURSIVE ExpectedCount(_)
ExpectedCount(k) ==
    IF k > Len(lods) THEN 0
    ELSE NUM_LAYERS * CeilDiv(LodSide(width, lods[k]), tile_px)
                    * CeilDiv(LodSide(height, lods[k]), tile_px)
             + ExpectedCount(k + 1)

\* C8: the number of index entries of a completed pack is the sum over the
\* supplied LODs of 4 * ceil(floor(W/s)/tile_px) * ceil(floor(H/s)/tile_px);
\* tiles_x_full / tiles_y_full are ceil(W/tile_px) / ceil(H/tile_px); four
\* 300x300 layers with tile_px 256 and lods 1,2 give 2 x 2 and 20 entries.
C8_EntryCount ==
    Completed =>
        /\ Len(index_entries) = ExpectedCount(1)
        /\ FileCount = ExpectedCount(1)
        /\ FileTilesX = CeilDiv(width, tile_px)
        /\ FileTilesY = CeilDiv(height, tile_px)
        /\ (width = 300 /\ height = 300 /\ tile_px = 256 /\ lods = <<1, 2>>) =>
              /\ FileTilesX = 2
              /\ FileTilesY = 2
              /\ FileCount = 20
              /\ Cardinality({i \in 1..FileCount : FileRec(i).lod = 1}) = 16
              /\ Cardinality({i \in 1..FileCount : FileRec(i).lod = 2}) = 4

C8_Witness ==
    /\ pc = "done"
    /\ width = 300
    /\ height = 300
    /\ tile_px = 256
    /\ lods = <<1, 2>>
    /\ FileCount = 20

OffsetFieldBytes == (HdrLen - 15)..HdrLen

RECURSIVE SumBlobs(_)
SumBlobs(blobs) == IF blobs = <<>> THEN 0 ELSE Len(Head(blobs)) + SumBlobs(Tail(blobs))

\* C9: until the final rewrite the index_offset and data_offset fields in the
\* file are 0, also after a call that failed; the rewrite happens when every
\* index record and payload byte is in the file, changes only the last 16
\* header bytes and stores index_offset = 56 + 4 * num_lods and
\* data_offset = index_offset + 36 * number of entries.
C9_PatchedLast ==
    /\ []((f # "none" /\ ~Completed) =>
            \A k \in OffsetFieldBytes : k <= Len(out_file) => out_file[k] = 0)
    /\ [][(f = "open" /\ \E k \in OffsetFieldBytes :
                k <= Len(out_file) /\ out_file'[k] # out_file[k]) =>
            /\ pc = "patch"
            /\ Len(out_file) = HdrLen + 36 * Len(index_entries)
                                  + SumBlobs(tile_data_blobs)
            /\ Len(out_file') = Len(out_file)
            /\ \A k \in 1..Len(out_file) :
                  k \notin OffsetFieldBytes => out_file'[k] = out_file[k]
            /\ FileIndexOffset' = HdrLen
            /\ FileDataOffset' = HdrLen + 36 * Len(index_entries)]_vars
    /\ [](Completed => FileIndexOffset = HdrLen /\ FileIndexOffset = header_end)

C9_Witness ==
    /\ pc = "written"
    /\ Len(lods) = 2
    /\ FileIndexOffset = 64
    /\ FileDataOffset > 64 + 36 * NUM_LAYERS

\* C10: for every LOD list main accepts, no two index entries carry the same
\* (lod, z, tile_x, tile_y).
C10_UniqueKeys ==
    caller = "main" =>
        \A i, j \in 1..Len(index_entries) :
            i # j => Key(index_entries[i]) # Key(index_entries[j])

====
